---- MODULE Spec2Model ----
(***************************************************************************)
(* The audio manager of voice_mode: the reservation queue (AudioQueue),    *)
(* the playback worker and completion registry (AudioManagerService) and   *)
(* the playback engine (AudioPlaybackManager).                             *)
(*                                                                         *)
(* Time is the reading of time.time(), counted in units of 30 seconds; a   *)
(* reading can repeat, so two items created without a Tick in between can  *)
(* get the same reservation_time and the same item_id. An item reads the   *)
(* clock twice, for reservation_time and then for item_id.                 *)
(*                                                                         *)
(* Python objects are identified by the number of their append to _items   *)
(* (oid): _items holds references, _items_by_id maps an item_id to a       *)
(* reference, and fill mutates the referenced object wherever it is held.  *)
(***************************************************************************)
EXTENDS Integers, Sequences, FiniteSets, TLC

\* ---------------------------------------------------------------- bounds
MaxItems == 2
MaxClock == 3
MaxChunks == 2
MaxWaiters == 1
MaxChimeCalls == 4
MaxKeyCallbacks == 6

\* ------------------------------------------------------ program constants
HIGH == 0
NORMAL == 1
LOW == 2
\* RESERVATION_TIMEOUT = 30.0 seconds, the unit of the clock
RESERVATION_TIMEOUT == 1
\* _chime_cooldown = 60.0 seconds
CHIME_COOLDOWN == 2

Priorities == {HIGH, NORMAL, LOW}
Projects == {"A", "B"}
Readings == 0..MaxClock
Oids == 1..MaxItems
NoProject == "none"

VARIABLES
  now,             \* the reading of time.time()
  objs,            \* the QueueItem objects ever appended to _items, by oid
  items,           \* AudioQueue._items: references, in list order
  byId,            \* AudioQueue._items_by_id: item_id -> reference (0: no key)
  total_enqueued,  \* AudioQueue._total_enqueued
  total_played,    \* AudioQueue._total_played
  events,          \* AudioManagerService._item_events: item_id -> Event object (0: no key)
  evSet,           \* the asyncio.Event objects that are set
  cleanups,        \* _cleanup_item_event tasks sleeping, per item_id
  waiters,         \* wait_for_item calls blocked in asyncio.wait_for
  wpc,             \* _playback_loop: "loop", "play" (awaiting the executor), "signal", "dead"
  cur,             \* the item the worker dequeued last (0: none)
  ppc,             \* AudioPlaybackManager.play in the executor: "idle", "start", "open", "wait", "end"
  is_playing,      \* AudioPlaybackManager._is_playing
  is_paused,       \* AudioPlaybackManager._is_paused
  current_project, \* AudioPlaybackManager._current_project
  complete,        \* AudioPlaybackManager._playback_complete is set
  stream,          \* AudioPlaybackManager._stream: "none", "active", "stopped"
  aq,              \* AudioPlaybackManager._audio_queue: the chunks left, then the end marker
  dev,             \* the chunks written to the output device in the last play call
  tnext,           \* a thread in dequeue's condition wait: its next_item (0: no thread waits)
  inflight,        \* the items threads have constructed in reserve or enqueue and
                   \* not yet appended: they have not acquired the lock
  dq,              \* history: the last dequeue call (its path, a ready item left
                   \* behind, the reservation it removed as timed out)
  played,          \* history: the items dequeue returned, in order
  fills,           \* history: the items in the order they first got audio
  returned,        \* history: the items whose play call has returned
  failed,          \* history: the items whose play call has returned False
  lastWait,        \* history: the last wait_for_item call that returned
  last_chime_time, \* AudioManagerService._last_chime_time
  dictation_active,\* AudioManagerService._dictation_active
  chimes,          \* history: the check_chime_allowed calls, their time and answer
  hk_running,      \* HotkeyMonitor._running
  hk_pressed,      \* HotkeyMonitor._is_pressed, the latch
  hk_thread,       \* the listener thread: "none", "listening", "exited"
  hk_inflight,     \* a key event whose callback has passed the test of _running:
                   \* "down", "up" ("none": no callback is under way)
  hk_calls,        \* history: the callbacks invoked, "press" or "release", in order
  holder,          \* who holds each lock: a thread, or "none"
  at,              \* each thread's operation and the number of its steps done
  driving,         \* the threads that are inside a call on the output device
  response         \* the last answer of a POST handler that takes a body: its
                   \* endpoint, whether the body was JSON, the status, an error field

qvars == <<now, objs, items, byId, total_enqueued, total_played>>
rvars == <<events, evSet, cleanups, waiters>>
wvars == <<wpc, cur, tnext, inflight>>
pvars == <<ppc, is_playing, is_paused, current_project, complete, stream, aq, dev>>
hvars == <<dq, played, fills, returned, failed, lastWait>>
svars == <<last_chime_time, chimes, dictation_active>>
kvars == <<hk_running, hk_pressed, hk_thread, hk_inflight, hk_calls>>
avars == <<response>>
lvars == <<holder, at, driving>>
vars == <<qvars, rvars, wvars, pvars, hvars, svars, kvars, avars, lvars>>

\* ------------------------------------------------------------ QueueItem
ItemId(t) == t

NewItem(p, t, hasAudio, a, proj, t2) ==
  [priority |-> p, reservation_time |-> t, filled |-> hasAudio, audio |-> a,
   project |-> proj, item_id |-> ItemId(t2)]

is_ready(o) == objs[o].filled

\* dataclass(order=True): comparison over (priority, reservation_time) only
ItemLess(a, b) ==
  \/ objs[a].priority < objs[b].priority
  \/ /\ objs[a].priority = objs[b].priority
     /\ objs[a].reservation_time < objs[b].reservation_time

ItemEq(a, b) ==
  /\ objs[a].priority = objs[b].priority
  /\ objs[a].reservation_time = objs[b].reservation_time

\* sorted(self._items)[0]: the sort is stable, so the first of the least items
HeadIndex(its) ==
  CHOOSE i \in 1..Len(its) :
    /\ \A j \in 1..Len(its) : ~ItemLess(its[j], its[i])
    /\ \A j \in 1..(i - 1) : ItemLess(its[i], its[j])

NextItem(its) == its[HeadIndex(its)]

RemoveAt(s, i) == SubSeq(s, 1, i - 1) \o SubSeq(s, i + 1, Len(s))

\* list.remove(x): the first element that is x or compares equal to x
CanRemove(its, o) == \E i \in 1..Len(its) : its[i] = o \/ ItemEq(its[i], o)

RemoveIndex(its, o) ==
  CHOOSE i \in 1..Len(its) :
    /\ its[i] = o \/ ItemEq(its[i], o)
    /\ \A j \in 1..(i - 1) : ~(its[j] = o \/ ItemEq(its[j], o))

ListRemove(its, o) == RemoveAt(its, RemoveIndex(its, o))

\* ------------------------------------------------------ AudioQueue.dequeue
DqResult(r, its, ids, tp, e, c, n) ==
  [ret |-> r, items |-> its, byId |-> ids, total_played |-> tp, exc |-> e,
   case |-> c, next |-> n, expired |-> 0]

\* self._items.remove(o); del self._items_by_id[o.item_id]; and, for an item that
\* is returned, self._total_played += 1. list.remove raises ValueError and del
\* raises KeyError; what was changed before the exception stays changed.
TakeItem(its, ids, tp, o, counted, c) ==
  IF ~CanRemove(its, o)
  THEN DqResult(0, its, ids, tp, TRUE, "ValueError", 0)
  ELSE IF ids[objs[o].item_id] = 0
  THEN DqResult(0, ListRemove(its, o), ids, tp, TRUE, "KeyError", 0)
  ELSE DqResult(IF counted THEN o ELSE 0, ListRemove(its, o),
                [ids EXCEPT ![objs[o].item_id] = 0],
                IF counted THEN tp + 1 ELSE tp, FALSE, c, 0)

\* A faulty dequeue, to test C7 against: a timed-out reservation is left in place.
DequeueExpired_Keep(its, ids, tp, h) ==
  DqResult(0, its, ids, tp, FALSE, "expired_none", 0)

\* A faulty dequeue, to test the counters against: a timed-out reservation is
\* counted as played.
DequeueExpired_Counted(its, ids, tp, h) ==
  LET r == TakeItem(its, ids, tp, h, FALSE, "expired_none")
  IN IF r.exc THEN r ELSE [r EXCEPT !.total_played = tp + 1, !.expired = h]

\* the reservation of the next item has timed out: remove it, try the rest once
DequeueExpired(its, ids, tp, h) ==
  LET r == TakeItem(its, ids, tp, h, FALSE, "expired_none")
  IN IF r.exc THEN r
     ELSE IF r.items # <<>> /\ is_ready(NextItem(r.items))
     THEN [TakeItem(r.items, r.byId, tp, NextItem(r.items), TRUE, "expired_ready")
             EXCEPT !.expired = h]
     ELSE [r EXCEPT !.expired = h]

\* A faulty dequeue, to test C1 against: a pending next item is passed over and
\* the first ready item in list order is returned.
DequeueFirst_SkipPending(its, ids, tp, t) ==
  IF \E k \in 1..Len(its) : is_ready(its[k])
  THEN LET k == CHOOSE k \in 1..Len(its) :
                  is_ready(its[k]) /\ \A j \in 1..(k - 1) : ~is_ready(its[j])
       IN TakeItem(its, ids, tp, its[k], TRUE, "ready")
  ELSE DqResult(0, its, ids, tp, FALSE, "empty", 0)

\* dequeue up to the condition wait; case "wait" when it reaches the wait
DequeueFirst(its, ids, tp, t) ==
  IF its = <<>> THEN DqResult(0, its, ids, tp, FALSE, "empty", 0)
  ELSE LET h == NextItem(its)
       IN IF is_ready(h) THEN TakeItem(its, ids, tp, h, TRUE, "ready")
          ELSE IF t - objs[h].reservation_time > RESERVATION_TIMEOUT
          THEN DequeueExpired(its, ids, tp, h)
          ELSE DqResult(0, its, ids, tp, FALSE, "wait", h)

\* A faulty dequeue, to test C2 against: after the wait it returns a ready item
\* from behind the pending next item, as the docstring of dequeue has it.
DequeueAfterWait_ReadyBehind(its, ids, tp, h) ==
  IF \E k \in 1..Len(its) : is_ready(its[k])
  THEN LET k == CHOOSE k \in 1..Len(its) :
                  is_ready(its[k]) /\ \A j \in 1..(k - 1) : ~is_ready(its[j])
       IN TakeItem(its, ids, tp, its[k], TRUE, "waited_ready")
  ELSE DqResult(0, its, ids, tp, FALSE, "waited_none", h)

\* A faulty dequeue, to test the readiness of its results against: after the
\* wait it returns the next item if it is still queued, ready or not.
DequeueAfterWait_NoReadyCheck(its, ids, tp, h) ==
  IF ids[objs[h].item_id] # 0
  THEN TakeItem(its, ids, tp, h, TRUE, "waited_ready")
  ELSE DqResult(0, its, ids, tp, FALSE, "waited_none", h)

\* dequeue after the condition wait, h the next_item found before it
DequeueAfterWait(its, ids, tp, h) ==
  IF ids[objs[h].item_id] # 0 /\ is_ready(h)
  THEN TakeItem(its, ids, tp, h, TRUE, "waited_ready")
  ELSE DqResult(0, its, ids, tp, FALSE, "waited_none", h)

\* A dequeue call on the event-loop thread: every other caller of the queue runs
\* on that thread too, so nothing changes during the condition wait.
Dequeue(its, ids, tp, t) ==
  LET r == DequeueFirst(its, ids, tp, t)
  IN IF r.case = "wait" THEN DequeueAfterWait(its, ids, tp, r.next) ELSE r

\* -------------------------------------------------------- AudioQueue.clear
RECURSIVE ClearRemove(_, _, _)
ClearRemove(its, ids, rem) ==
  IF rem = <<>> THEN [items |-> its, byId |-> ids, exc |-> FALSE]
  ELSE LET o == rem[1]
       IN IF ~CanRemove(its, o) THEN [items |-> its, byId |-> ids, exc |-> TRUE]
          ELSE IF ids[objs[o].item_id] = 0
          THEN [items |-> ListRemove(its, o), byId |-> ids, exc |-> TRUE]
          ELSE ClearRemove(ListRemove(its, o),
                           [ids EXCEPT ![objs[o].item_id] = 0], Tail(rem))

ItemsOfProject(its, proj) == SelectSeq(its, LAMBDA o : objs[o].project = proj)

\* cleared = len(items_to_remove), the number clear(project) returns
ClearCount(its, proj) == Len(ItemsOfProject(its, proj))

\* ------------------------------------------------------------------ Init
\* _last_chime_time = 0.0, the epoch: the clock of the model counts from the
\* start of the service, which is more than a cooldown after the epoch.
NoChimeYet == 0 - CHIME_COOLDOWN

NoDq == [case |-> "none", stalled |-> FALSE, expired |-> 0]
\* AudioQueue._lock (with its condition), AudioManagerService._events_lock,
\* AudioPlaybackManager._lock
Locks == {"queue", "events", "player"}
\* the event loop (handlers, _playback_loop, cleanup tasks), the executor
\* thread that runs play, the listener thread of the hotkey monitor
Threads == {"loop", "executor", "hotkey"}
Idle == [op |-> "idle", done |-> 0]
NoResponse == [endpoint |-> "none", json |-> TRUE, status |-> 0, error |-> FALSE]
NoWait == [known |-> FALSE, completed |-> FALSE, id |-> 0]

Init ==
  /\ now = 0
  /\ objs = <<>>
  /\ items = <<>>
  /\ byId = [i \in Readings |-> 0]
  /\ total_enqueued = 0
  /\ total_played = 0
  /\ events = [i \in Readings |-> 0]
  /\ evSet = {}
  /\ cleanups = [i \in Readings |-> 0]
  /\ waiters = {}
  /\ wpc = "loop"
  /\ cur = 0
  /\ tnext = 0
  /\ inflight = <<>>
  /\ ppc = "idle"
  /\ is_playing = FALSE
  /\ is_paused = FALSE
  /\ current_project = NoProject
  /\ complete = FALSE
  /\ stream = "none"
  /\ aq = <<>>
  /\ dev = <<>>
  /\ dq = NoDq
  /\ played = <<>>
  /\ fills = <<>>
  /\ returned = {}
  /\ failed = {}
  /\ lastWait = NoWait
  /\ last_chime_time = NoChimeYet
  /\ chimes = <<>>
  /\ dictation_active = FALSE
  /\ hk_running = FALSE
  /\ hk_pressed = FALSE
  /\ hk_thread = "none"
  /\ hk_inflight = "none"
  /\ hk_calls = <<>>
  /\ response = NoResponse
  /\ holder = [l \in Locks |-> "none"]
  /\ at = [t \in Threads |-> Idle]
  /\ driving = {}

\* the clock: time.time() returns a later reading
Tick ==
  /\ now < MaxClock
  /\ now' = now + 1
  /\ UNCHANGED <<objs, items, byId, total_enqueued, total_played>>
  /\ UNCHANGED <<rvars, wvars, pvars, hvars, svars, kvars, avars, lvars>>

\* An item can be created while the clock leaves it the time to expire.
CanCreate == Len(objs) + Len(inflight) < MaxItems /\ now + RESERVATION_TIMEOUT < MaxClock

\* ------------------------------------------------- AudioQueue, its callers
\* QueueItem(...): reservation_time is read from the clock first, then the
\* default factory of item_id reads the clock again, at the same or a later reading
IdReadings == {now, now + 1}

\* position = len(self._items), taken after the append
Position(its) == Len(its)

\* AudioQueue.reserve: a pending item, appended under the lock
QReserve(proj, p) ==
  /\ CanCreate
  /\ \E t2 \in IdReadings :
       LET it == NewItem(p, now, FALSE, 0, proj, t2)
       IN /\ now' = t2
          /\ objs' = Append(objs, it)
          /\ items' = Append(items, Len(objs) + 1)
          /\ byId' = [byId EXCEPT ![it.item_id] = Len(objs) + 1]
  /\ total_enqueued' = total_enqueued + 1
  /\ UNCHANGED <<total_played, fills>>

\* A faulty enqueue, to test the equivalence with reserve and fill against: the
\* item is stamped with the later reading of the clock.
QEnqueue_LateStamp(proj, p, a) ==
  /\ CanCreate
  /\ \E t2 \in IdReadings :
       LET it == NewItem(p, t2, TRUE, a, proj, t2)
       IN /\ now' = t2
          /\ objs' = Append(objs, it)
          /\ items' = Append(items, Len(objs) + 1)
          /\ byId' = [byId EXCEPT ![it.item_id] = Len(objs) + 1]
  /\ total_enqueued' = total_enqueued + 1
  /\ fills' = Append(fills, Len(objs) + 1)
  /\ UNCHANGED total_played

\* AudioQueue.enqueue: an item with its audio, appended under the lock
QEnqueue(proj, p, a) ==
  /\ CanCreate
  /\ \E t2 \in IdReadings :
       LET it == NewItem(p, now, TRUE, a, proj, t2)
       IN /\ now' = t2
          /\ objs' = Append(objs, it)
          /\ items' = Append(items, Len(objs) + 1)
          /\ byId' = [byId EXCEPT ![it.item_id] = Len(objs) + 1]
  /\ total_enqueued' = total_enqueued + 1
  /\ fills' = Append(fills, Len(objs) + 1)
  /\ UNCHANGED total_played

\* AudioQueue.fill: the item found under item_id gets the audio; an id that is
\* no key returns "Item not found or expired" and changes nothing
FillItem(os, ids, i, a) ==
  IF ids[i] = 0 THEN os
  ELSE [os EXCEPT ![ids[i]].filled = TRUE, ![ids[i]].audio = a]

\* the "filled" of the dict fill returns: False for an id that is no key
FillResult(ids, i) == ids[i] # 0

QFill(i, a) ==
  /\ objs' = FillItem(objs, byId, i, a)
  /\ fills' = IF byId[i] # 0 /\ ~is_ready(byId[i]) THEN Append(fills, byId[i]) ELSE fills
  /\ UNCHANGED <<now, items, byId, total_enqueued, total_played>>

\* AudioQueue.clear(None)
QClearAll ==
  /\ items' = <<>>
  /\ byId' = [i \in Readings |-> 0]
  /\ UNCHANGED <<now, objs, total_enqueued, total_played, fills>>

\* AudioQueue.clear(project)
QClearProject(proj) ==
  /\ LET r == ClearRemove(items, byId, ItemsOfProject(items, proj))
     IN items' = r.items /\ byId' = r.byId
  /\ UNCHANGED <<now, objs, total_enqueued, total_played, fills>>

\* the queue and the registry after reserve_slot(proj, p), whose item reads t2
\* for its id, and fill_slot of that id with audio a right after it
ReserveThenFill(proj, p, a, t2) ==
  LET it == NewItem(p, now, FALSE, 0, proj, t2)
      n == Len(objs) + 1
      ids == [byId EXCEPT ![it.item_id] = n]
  IN [objs |-> FillItem(Append(objs, it), ids, it.item_id, a),
      items |-> Append(items, n),
      byId |-> ids,
      total_enqueued |-> total_enqueued + 1,
      events |-> [events EXCEPT ![it.item_id] = n],
      fills |-> Append(fills, n)]

\* ----------------------------------------------- requests (event-loop thread)
\* reserve_slot: AudioQueue.reserve, then the item's Event
Reserve(proj, p) ==
  /\ QReserve(proj, p)
  /\ events' = [events EXCEPT ![objs'[Len(objs) + 1].item_id] = Len(objs) + 1]
  /\ UNCHANGED <<evSet, cleanups, waiters, wvars, pvars, dq, played, returned, failed, lastWait, svars, kvars, avars, lvars>>

\* should_announce of reserve_slot for the item n it has just appended: another
\* project is the engine's current_project, or an item of another project stands
\* in self.queue._items before the first item that has the id of n
ShouldAnnounce(n) ==
  \/ current_project # NoProject /\ current_project # objs[n].project
  \/ \E k \in 1..Len(items) :
       /\ \A m \in 1..k : objs[items[m]].item_id # objs[n].item_id
       /\ objs[items[k]].project # objs[n].project

\* queue_audio: AudioQueue.enqueue, then the item's Event
QueueAudio(proj, p, a) ==
  /\ QEnqueue(proj, p, a)
  /\ events' = [events EXCEPT ![objs'[Len(objs) + 1].item_id] = Len(objs) + 1]
  /\ UNCHANGED <<evSet, cleanups, waiters, wvars, pvars, dq, played, returned, failed, lastWait, svars, kvars, avars, lvars>>

\* fill_slot
Fill(i, a) ==
  /\ QFill(i, a)
  /\ UNCHANGED <<rvars, wvars, pvars, dq, played, returned, failed, lastWait, svars, kvars, avars, lvars>>

\* clear_queue(None)
ClearAll ==
  /\ QClearAll
  /\ UNCHANGED <<rvars, wvars, pvars, dq, played, returned, failed, lastWait, svars, kvars, avars, lvars>>

\* clear_queue(project)
ClearProject(proj) ==
  /\ QClearProject(proj)
  /\ UNCHANGED <<rvars, wvars, pvars, dq, played, returned, failed, lastWait, svars, kvars, avars, lvars>>

\* -------------------------------------- the worker (event-loop thread)
\* the queue after a dequeue call, and its history
DequeueApply(r) ==
  /\ items' = r.items
  /\ byId' = r.byId
  /\ total_played' = r.total_played
  /\ dq' = [case |-> r.case,
            stalled |-> r.ret = 0 /\ ~r.exc /\ \E i \in 1..Len(r.items) : is_ready(r.items[i]),
            expired |-> r.expired]
  /\ played' = IF r.ret = 0 THEN played ELSE Append(played, r.ret)

\* what _playback_loop does with the result of queue.dequeue(): an exception
\* ends the task, None sleeps 0.1 s, an item goes to player.play in the executor
WorkerTake(r) ==
  /\ DequeueApply(r)
  /\ IF r.exc THEN wpc' = "dead" /\ cur' = 0 /\ UNCHANGED ppc
     ELSE IF r.ret = 0 THEN wpc' = "loop" /\ cur' = 0 /\ UNCHANGED ppc
     ELSE wpc' = "play" /\ cur' = r.ret /\ ppc' = "start"

\* A faulty worker, to test C4 against: it dequeues again without awaiting the
\* executor.
WorkerLoop_NoAwait ==
  /\ wpc \in {"loop", "play"}
  /\ \E r \in {Dequeue(items, byId, total_played, now)} : WorkerTake(r)
  /\ UNCHANGED <<now, objs, total_enqueued, rvars, tnext, inflight, fills, returned, failed, lastWait>>
  /\ UNCHANGED <<is_playing, is_paused, current_project, complete, stream, aq, dev, svars, kvars, avars, lvars>>

\* an iteration that starts after asyncio.sleep(0.1) or at the start of the task
WorkerLoop ==
  /\ wpc = "loop"
  /\ \E r \in {Dequeue(items, byId, total_played, now)} : WorkerTake(r)
  /\ UNCHANGED <<now, objs, total_enqueued, rvars, tnext, inflight, fills, returned, failed, lastWait>>
  /\ UNCHANGED <<is_playing, is_paused, current_project, complete, stream, aq, dev, svars, kvars, avars, lvars>>

\* event = self._item_events.get(item.item_id); if event: event.set()
Signal(evs, set, i) == IF evs[i] = 0 THEN set ELSE set \cup {evs[i]}

\* The executor's play has returned: signal the item's event, schedule its
\* cleanup and, without another await, start the next iteration.
WorkerSignal ==
  /\ wpc = "signal"
  /\ evSet' = Signal(events, evSet, objs[cur].item_id)
  /\ cleanups' = [cleanups EXCEPT ![objs[cur].item_id] = @ + 1]
  /\ \E r \in {Dequeue(items, byId, total_played, now)} : WorkerTake(r)
  /\ UNCHANGED <<now, objs, total_enqueued, events, waiters, tnext, inflight, fills, returned, failed, lastWait>>
  /\ UNCHANGED <<is_playing, is_paused, current_project, complete, stream, aq, dev, svars, kvars, avars, lvars>>

\* _cleanup_item_event after its sleep: self._item_events.pop(item_id, None)
Cleanup(i) ==
  /\ cleanups[i] > 0
  /\ cleanups' = [cleanups EXCEPT ![i] = @ - 1]
  /\ events' = [events EXCEPT ![i] = 0]
  /\ UNCHANGED <<qvars, evSet, waiters, wvars, pvars, hvars, svars, kvars, avars, lvars>>

\* ------------------------------------------------ AudioPlaybackManager.play
\* with self._lock: _is_playing = True, _current_project = project, clear the event
PlayStart ==
  /\ ppc = "start"
  /\ ppc' = "open"
  /\ is_playing' = TRUE
  /\ current_project' = objs[cur].project
  /\ complete' = FALSE
  /\ UNCHANGED <<qvars, rvars, wvars, hvars, is_paused, stream, aq, dev, svars, kvars, avars, lvars>>

\* The audio cut into chunks of buffer_size samples, then the end marker (no 0).
\* The last chunk is full or shorter than a buffer, with the length of the audio.
EndMarker == [no |-> 0, full |-> TRUE]

ChunkNos(n) == [k \in 1..n |-> k]

Chunks(n, lastFull) ==
  [k \in 1..(n + 1) |->
     IF k = n + 1 THEN EndMarker ELSE [no |-> k, full |-> (k < n \/ lastFull)]]

\* the chunks and the end marker are queued, the output stream is started
PlayOpen ==
  /\ ppc = "open"
  /\ ppc' = "wait"
  /\ \E lastFull \in BOOLEAN : aq' = Chunks(objs[cur].audio, lastFull)
  /\ dev' = <<>>
  /\ stream' = "active"
  /\ UNCHANGED <<qvars, rvars, wvars, hvars, is_playing, is_paused, current_project, complete, svars, kvars, avars, lvars>>

\* sd.OutputStream or its start raises: the except branch, play returns False
PlayFail ==
  /\ ppc = "open"
  /\ ppc' = "idle"
  /\ \E lastFull \in BOOLEAN : aq' = Chunks(objs[cur].audio, lastFull)
  /\ dev' = <<>>
  /\ stream' = "none"
  /\ is_playing' = FALSE
  /\ current_project' = NoProject
  /\ complete' = TRUE
  /\ wpc' = "signal"
  /\ returned' = returned \cup {cur}
  /\ failed' = failed \cup {cur}
  /\ UNCHANGED <<qvars, rvars, cur, tnext, inflight, is_paused, dq, played, fills, lastWait, svars, kvars, avars, lvars>>

\* _audio_callback while paused, or with an empty queue: silence, nothing consumed
CallbackSilence ==
  /\ stream = "active"
  /\ is_paused \/ aq = <<>>
  /\ UNCHANGED vars

\* A faulty callback, to test C11 against: it does not look at the paused flag.
CallbackChunk_IgnorePause ==
  /\ stream = "active"
  /\ aq # <<>>
  /\ Head(aq).no # 0
  /\ aq' = Tail(aq)
  /\ dev' = Append(dev, Head(aq).no)
  /\ IF Head(aq).full
     THEN UNCHANGED <<complete, stream>>
     ELSE complete' = TRUE /\ stream' = "stopped"
  /\ UNCHANGED <<qvars, rvars, wvars, hvars>>
  /\ UNCHANGED <<ppc, is_playing, is_paused, current_project, svars, kvars, avars, lvars>>

\* _audio_callback takes a chunk of the item and writes it to the device; a
\* chunk shorter than the buffer ends the playback (event set, CallbackStop)
CallbackChunk ==
  /\ stream = "active"
  /\ ~is_paused
  /\ aq # <<>>
  /\ Head(aq).no # 0
  /\ aq' = Tail(aq)
  /\ dev' = Append(dev, Head(aq).no)
  /\ IF Head(aq).full
     THEN UNCHANGED <<complete, stream>>
     ELSE complete' = TRUE /\ stream' = "stopped"
  /\ UNCHANGED <<qvars, rvars, wvars, hvars>>
  /\ UNCHANGED <<ppc, is_playing, is_paused, current_project, svars, kvars, avars, lvars>>

\* _audio_callback takes the end marker: the event is set, CallbackStop
CallbackEnd ==
  /\ stream = "active"
  /\ ~is_paused
  /\ aq # <<>>
  /\ Head(aq).no = 0
  /\ aq' = Tail(aq)
  /\ complete' = TRUE
  /\ stream' = "stopped"
  /\ UNCHANGED <<qvars, rvars, wvars, hvars, ppc, is_playing, is_paused, current_project, dev, svars, kvars, avars, lvars>>

\* self._playback_complete.wait() returns; the stream, if any, is stopped and closed
PlayDrain ==
  /\ ppc = "wait"
  /\ complete
  /\ ppc' = "end"
  /\ stream' = "none"
  /\ UNCHANGED <<qvars, rvars, wvars, hvars>>
  /\ UNCHANGED <<is_playing, is_paused, current_project, complete, aq, dev, svars, kvars, avars, lvars>>

\* with self._lock: _is_playing = False, _current_project = None; return True
PlayEnd ==
  /\ ppc = "end"
  /\ ppc' = "idle"
  /\ is_playing' = FALSE
  /\ current_project' = NoProject
  /\ wpc' = "signal"
  /\ returned' = returned \cup {cur}
  /\ UNCHANGED <<qvars, rvars, cur, tnext, inflight, is_paused, complete, stream, aq, dev>>
  /\ UNCHANGED <<dq, played, fills, failed, lastWait, svars, kvars, avars, lvars>>

\* The whole call of play, from the executor taking it to its return, when no
\* pause, resume or stop acts on the engine meanwhile.
Play ==
  /\ ppc = "start"
  /\ ppc' = "idle"
  /\ complete' = TRUE
  /\ aq' = <<>>
  /\ dev' = ChunkNos(objs[cur].audio)
  /\ wpc' = "signal"
  /\ returned' = returned \cup {cur}
  /\ UNCHANGED <<qvars, rvars, cur, tnext, inflight, is_playing, is_paused, current_project, stream>>
  /\ UNCHANGED <<dq, played, fills, failed, lastWait, svars, kvars, avars, lvars>>

\* A faulty pause, to test the idempotence against: it flips the flag.
Pause_Toggle ==
  /\ is_paused' = ~is_paused
  /\ UNCHANGED <<qvars, rvars, wvars, hvars>>
  /\ UNCHANGED <<ppc, is_playing, current_project, complete, stream, aq, dev, svars, kvars, avars, lvars>>

\* AudioPlaybackManager.pause / resume (a request, or a hotkey edge)
Pause ==
  /\ is_paused' = TRUE
  /\ UNCHANGED <<qvars, rvars, wvars, hvars>>
  /\ UNCHANGED <<ppc, is_playing, current_project, complete, stream, aq, dev, svars, kvars, avars, lvars>>

Resume ==
  /\ is_paused' = FALSE
  /\ UNCHANGED <<qvars, rvars, wvars, hvars>>
  /\ UNCHANGED <<ppc, is_playing, current_project, complete, stream, aq, dev, svars, kvars, avars, lvars>>

\* AudioPlaybackManager.stop
Stop ==
  /\ IF ~is_playing
     THEN UNCHANGED <<stream, aq, is_playing, is_paused, current_project, complete>>
     ELSE /\ stream' = "none"
          /\ aq' = <<>>
          /\ is_playing' = FALSE
          /\ is_paused' = FALSE
          /\ current_project' = NoProject
          /\ complete' = TRUE
  /\ UNCHANGED <<qvars, rvars, wvars, hvars, ppc, dev, svars, kvars, avars, lvars>>

\* ---------------------------------------- AudioManagerService.wait_for_item
\* A faulty wait, to test C9 against: a call for an id without an event blocks.
WaitCall_Block(i) ==
  /\ Cardinality(waiters) < MaxWaiters
  /\ waiters' = waiters \cup {[id |-> i, ev |-> events[i]]}
  /\ UNCHANGED lastWait
  /\ UNCHANGED <<qvars, events, evSet, cleanups, wvars, pvars, dq, played, fills, returned, failed, svars, kvars, avars, lvars>>

\* the lookup: an id without an event returns True at once, else the call blocks
WaitCall(i) ==
  /\ IF events[i] = 0
     THEN /\ lastWait' = [known |-> FALSE, completed |-> TRUE, id |-> i]
          /\ UNCHANGED waiters
     ELSE /\ Cardinality(waiters) < MaxWaiters
          /\ waiters' = waiters \cup {[id |-> i, ev |-> events[i]]}
          /\ UNCHANGED lastWait
  /\ UNCHANGED <<qvars, events, evSet, cleanups, wvars, pvars, dq, played, fills, returned, failed, svars, kvars, avars, lvars>>

\* event.wait() has returned: True
WaitDone(w) ==
  /\ w \in waiters
  /\ w.ev \in evSet
  /\ waiters' = waiters \ {w}
  /\ lastWait' = [known |-> TRUE, completed |-> TRUE, id |-> w.id]
  /\ UNCHANGED <<qvars, events, evSet, cleanups, wvars, pvars, dq, played, fills, returned, failed, svars, kvars, avars, lvars>>

\* A faulty wait, to test C10 against: on the timeout it drops the item's event.
WaitTimeout_Drop(w) ==
  /\ w \in waiters
  /\ w.ev \notin evSet
  /\ waiters' = waiters \ {w}
  /\ events' = [events EXCEPT ![w.id] = 0]
  /\ lastWait' = [known |-> TRUE, completed |-> FALSE, id |-> w.id]
  /\ UNCHANGED <<qvars, evSet, cleanups, wvars, pvars, dq, played, fills, returned, failed, svars, kvars, avars, lvars>>

\* asyncio.TimeoutError: False
WaitTimeout(w) ==
  /\ w \in waiters
  /\ w.ev \notin evSet
  /\ waiters' = waiters \ {w}
  /\ lastWait' = [known |-> TRUE, completed |-> FALSE, id |-> w.id]
  /\ UNCHANGED <<qvars, events, evSet, cleanups, wvars, pvars, dq, played, fills, returned, failed, svars, kvars, avars, lvars>>

\* ------------------------------ AudioQueue under threads (its lock discipline)
\* a thread calls reserve, enqueue, fill or clear on the queue itself
\* a thread in reserve constructs its QueueItem: the clock is read for
\* reservation_time and for item_id before the lock is requested
TReserve(proj, p) ==
  /\ CanCreate
  /\ \E t2 \in IdReadings :
       /\ now' = t2
       /\ inflight' = Append(inflight, NewItem(p, now, FALSE, 0, proj, t2))
  /\ UNCHANGED <<objs, items, byId, total_enqueued, total_played>>
  /\ UNCHANGED <<rvars, wpc, cur, tnext, pvars, hvars, svars, kvars, avars, lvars>>

\* the same in enqueue
TEnqueue(proj, p, a) ==
  /\ CanCreate
  /\ \E t2 \in IdReadings :
       /\ now' = t2
       /\ inflight' = Append(inflight, NewItem(p, now, TRUE, a, proj, t2))
  /\ UNCHANGED <<objs, items, byId, total_enqueued, total_played>>
  /\ UNCHANGED <<rvars, wpc, cur, tnext, pvars, hvars, svars, kvars, avars, lvars>>

\* one of these threads acquires the lock and appends its item; objs lists the
\* items in the order of these appends
TAppend(k) ==
  /\ k \in 1..Len(inflight)
  /\ objs' = Append(objs, inflight[k])
  /\ items' = Append(items, Len(objs) + 1)
  /\ byId' = [byId EXCEPT ![inflight[k].item_id] = Len(objs) + 1]
  /\ total_enqueued' = total_enqueued + 1
  /\ fills' = IF inflight[k].filled THEN Append(fills, Len(objs) + 1) ELSE fills
  /\ inflight' = RemoveAt(inflight, k)
  /\ UNCHANGED <<now, total_played>>
  /\ UNCHANGED <<rvars, wpc, cur, tnext, pvars, dq, played, returned, failed, lastWait, svars, kvars, avars, lvars>>

TFill(i, a) ==
  QFill(i, a) /\ UNCHANGED <<rvars, wvars, pvars, dq, played, returned, failed, lastWait, svars, kvars, avars, lvars>>

TClearAll ==
  QClearAll /\ UNCHANGED <<rvars, wvars, pvars, dq, played, returned, failed, lastWait, svars, kvars, avars, lvars>>

TClearProject(proj) ==
  QClearProject(proj) /\ UNCHANGED <<rvars, wvars, pvars, dq, played, returned, failed, lastWait, svars, kvars, avars, lvars>>

\* a thread calls dequeue: it returns, or releases the lock in the condition wait
DequeueCall ==
  /\ tnext = 0
  /\ \E r \in {DequeueFirst(items, byId, total_played, now)} :
       IF r.case = "wait"
       THEN tnext' = r.next /\ UNCHANGED <<items, byId, total_played, dq, played>>
       ELSE tnext' = 0 /\ DequeueApply(r)
  /\ UNCHANGED <<now, objs, total_enqueued, rvars, wpc, cur, inflight, pvars, fills, returned, failed, lastWait, svars, kvars, avars, lvars>>

\* the wait has ended (notify_all or the timeout) and the lock is held again
DequeueWake ==
  /\ tnext # 0
  /\ \E r \in {DequeueAfterWait(items, byId, total_played, tnext)} : DequeueApply(r)
  /\ tnext' = 0
  /\ UNCHANGED <<now, objs, total_enqueued, rvars, wpc, cur, inflight, pvars, fills, returned, failed, lastWait, svars, kvars, avars, lvars>>

\* ------------------------------ AudioManagerService.check_chime_allowed
\* A faulty check, to test C12 against: an allowed chime is not recorded.
CheckChime_NoRecord ==
  /\ Len(chimes) < MaxChimeCalls
  /\ chimes' = Append(chimes, [t |-> now, allowed |-> now - last_chime_time >= CHIME_COOLDOWN])
  /\ UNCHANGED <<qvars, rvars, wvars, pvars, hvars, last_chime_time, dictation_active, kvars, avars, lvars>>

\* A faulty check, to test the frame of a denied call against: a denied call
\* records its time as well.
CheckChime_DeniedRecords ==
  /\ Len(chimes) < MaxChimeCalls
  /\ last_chime_time' = now
  /\ chimes' = Append(chimes, [t |-> now, allowed |-> now - last_chime_time >= CHIME_COOLDOWN])
  /\ UNCHANGED <<qvars, rvars, wvars, pvars, hvars, dictation_active, kvars, avars, lvars>>

\* elapsed = now - self._last_chime_time; allowed, and the time recorded, when
\* elapsed >= self._chime_cooldown
CheckChime ==
  /\ Len(chimes) < MaxChimeCalls
  /\ LET elapsed == now - last_chime_time
     IN IF elapsed >= CHIME_COOLDOWN
        THEN /\ last_chime_time' = now
             /\ chimes' = Append(chimes, [t |-> now, allowed |-> TRUE])
        ELSE /\ UNCHANGED last_chime_time
             /\ chimes' = Append(chimes, [t |-> now, allowed |-> FALSE])
  /\ UNCHANGED <<qvars, rvars, wvars, pvars, hvars, dictation_active, kvars, avars, lvars>>

\* ------------------------------------------------------ the lock discipline
\* What an operation does with the locks and the output device, in order:
\* acquire and release of a lock, entry to and return from calls on the stream.
Acq(l) == [do |-> "acquire", lock |-> l]
Rel(l) == [do |-> "release", lock |-> l]
DevIn == [do |-> "device", lock |-> "none"]
DevOut == [do |-> "return", lock |-> "none"]

WithLock(l) == <<Acq(l), Rel(l)>>

\* A faulty discipline, to test the lock order against: reserve_slot scans the
\* queue while it still holds the registry lock.
Program_Nested(op) ==
  IF op = "reserve_slot"
  THEN WithLock("queue") \o <<Acq("events")>> \o WithLock("player")
       \o WithLock("queue") \o <<Rel("events")>>
  ELSE WithLock("queue")

Program(op) ==
  CASE op = "reserve_slot" ->
         \* queue.reserve; the Event; player.current_project; the scan of _items
         WithLock("queue") \o WithLock("events") \o WithLock("player") \o WithLock("queue")
    [] op = "queue_audio" -> WithLock("queue") \o WithLock("events")
    [] op = "fill_slot" -> WithLock("queue")
    [] op = "clear_queue" -> WithLock("queue")
    [] op = "get_status" -> WithLock("queue") \o WithLock("player")
    [] op = "wait_for_item" -> WithLock("events")
    [] op = "cleanup" -> WithLock("events")
    [] op = "dequeue" -> WithLock("queue")
    \* dequeue that reaches the condition wait, which gives the lock up and takes it again
    [] op = "dequeue_wait" -> WithLock("queue") \o WithLock("queue")
    [] op = "signal" -> WithLock("events")
    [] op = "pause" -> WithLock("player")
    [] op = "resume" -> WithLock("player")
    \* stop when nothing is playing: the test under the lock, return False
    [] op = "stop_idle" -> WithLock("player")
    \* stop of a playing item: stream.stop() and stream.close() inside the lock
    [] op = "stop" -> <<Acq("player"), DevIn, DevOut, Rel("player")>>
    \* play: the flags under the lock; the stream opened, started, awaited,
    \* stopped and closed; the flags under the lock
    [] op = "play" -> WithLock("player") \o <<DevIn, DevOut>> \o WithLock("player")

\* the operations each thread runs
OpsOf(t) ==
  CASE t = "loop" -> {"reserve_slot", "queue_audio", "fill_slot", "clear_queue", "get_status",
                      "wait_for_item", "cleanup", "dequeue", "dequeue_wait", "signal",
                      "pause", "resume", "stop_idle", "stop"}
    [] t = "executor" -> {"play"}
    [] t = "hotkey" -> {"pause", "resume"}

\* _is_playing, as the executor's place in play tells it
InPlay == at["executor"].op = "play" /\ at["executor"].done \in 1..4

\* the step of thread t that is due, and whether it can be taken
Due(t) == Program(at[t].op)[at[t].done + 1]
CanStep(t) ==
  /\ at[t] # Idle
  /\ Due(t).do = "acquire" => holder[Due(t).lock] = "none"

\* the effect of the step i on the locks and on the device
Exec(t, i) ==
  /\ holder' = IF i.do = "acquire" THEN [holder EXCEPT ![i.lock] = t]
               ELSE IF i.do = "release" THEN [holder EXCEPT ![i.lock] = "none"]
               ELSE holder
  /\ driving' = IF i.do = "device" THEN driving \cup {t}
                ELSE IF i.do = "return" THEN driving \ {t}
                ELSE driving

\* thread t starts operation op with its first step
LockBegin(t, op) ==
  /\ at[t] = Idle
  /\ op \in OpsOf(t)
  /\ op = "stop" => InPlay
  /\ LET i == Program(op)[1]
     IN /\ i.do = "acquire" => holder[i.lock] = "none"
        /\ Exec(t, i)
  /\ at' = [at EXCEPT ![t] = [op |-> op, done |-> 1]]
  /\ UNCHANGED <<qvars, rvars, wvars, pvars, hvars, svars, kvars, avars>>

\* thread t takes the next step of its operation; after the last it is idle
LockStep(t) ==
  /\ CanStep(t)
  /\ Exec(t, Due(t))
  /\ at' = [at EXCEPT ![t] = IF at[t].done + 1 = Len(Program(at[t].op))
                              THEN Idle ELSE [at[t] EXCEPT !.done = @ + 1]]
  /\ UNCHANGED <<qvars, rvars, wvars, pvars, hvars, svars, kvars, avars>>

\* ------------------------------------------------------- the HTTP handlers
\* json: `await request.json()` returned the body (FALSE: it raised)
Answer(ep, json, st, err) == [endpoint |-> ep, json |-> json, status |-> st, error |-> err]

\* A faulty handler, to test the handler against: a body that is no JSON is
\* taken as an empty one.
HttpReserve_NoJsonCheck(json, proj, p) ==
  /\ QReserve(proj, IF json THEN p ELSE NORMAL)
  /\ events' = [events EXCEPT ![objs'[Len(objs) + 1].item_id] = Len(objs) + 1]
  /\ response' = Answer("reserve", json, 200, FALSE)
  /\ UNCHANGED <<evSet, cleanups, waiters, wvars, pvars, dq, played, returned, failed, lastWait, svars, kvars, lvars>>

\* POST /reserve: 400 for a body that is no JSON, else reserve_slot
HttpReserve(json, proj, p) ==
  IF ~json
  THEN /\ response' = Answer("reserve", json, 400, TRUE)
       /\ UNCHANGED <<qvars, rvars, wvars, pvars, hvars, svars, kvars, lvars>>
  ELSE /\ QReserve(proj, p)
       /\ events' = [events EXCEPT ![objs'[Len(objs) + 1].item_id] = Len(objs) + 1]
       /\ response' = Answer("reserve", json, 200, FALSE)
       /\ UNCHANGED <<evSet, cleanups, waiters, wvars, pvars, dq, played, returned, failed, lastWait, svars, kvars, lvars>>

\* POST /fill/{item_id}: 400 for a body that is no JSON or has no audio_data
\* (a = 0), else fill_slot, whose dict is answered with status 200
HttpFill(json, i, a) ==
  IF ~json \/ a = 0
  THEN /\ response' = Answer("fill", json, 400, TRUE)
       /\ UNCHANGED <<qvars, rvars, wvars, pvars, hvars, svars, kvars, lvars>>
  ELSE /\ QFill(i, a)
       /\ response' = Answer("fill", json, 200, ~FillResult(byId, i))
       /\ UNCHANGED <<rvars, wvars, pvars, dq, played, returned, failed, lastWait, svars, kvars, lvars>>

\* POST /clear: `except Exception: pass` leaves project = None for a body that
\* is no JSON, as for a body without "project" (proj = NoProject)
HttpClear(json, proj) ==
  /\ IF json /\ proj # NoProject THEN QClearProject(proj) ELSE QClearAll
  /\ response' = Answer("clear", json, 200, FALSE)
  /\ UNCHANGED <<rvars, wvars, pvars, dq, played, returned, failed, lastWait, svars, kvars, lvars>>

\* ----------------------------------------------------------- HotkeyMonitor
\* start(): no effect when _running; else _running = True and the listener
\* thread is started. The thread returns at once when its import fails, the
\* event tap cannot be created or the key is not supported (ok = FALSE).
\* start is not called while a former listener thread is still alive.
HkStart ==
  /\ hk_thread \in {"none", "exited"}
  /\ IF hk_running
     THEN UNCHANGED <<hk_running, hk_thread>>
     ELSE /\ hk_running' = TRUE
          /\ \E ok \in BOOLEAN : hk_thread' = IF ok THEN "listening" ELSE "exited"
  /\ UNCHANGED <<hk_pressed, hk_inflight, hk_calls>>
  /\ UNCHANGED <<qvars, rvars, wvars, pvars, hvars, svars, avars, lvars>>

\* stop(), called on another thread than the listener's
HkStop ==
  /\ hk_running' = FALSE
  /\ UNCHANGED <<hk_pressed, hk_thread, hk_inflight, hk_calls>>
  /\ UNCHANGED <<qvars, rvars, wvars, pvars, hvars, svars, avars, lvars>>

\* the listener thread leaves `while self._running`
HkExit ==
  /\ hk_thread = "listening"
  /\ hk_inflight = "none"
  /\ ~hk_running
  /\ hk_thread' = "exited"
  /\ UNCHANGED <<hk_running, hk_pressed, hk_inflight, hk_calls>>
  /\ UNCHANGED <<qvars, rvars, wvars, pvars, hvars, svars, avars, lvars>>

\* a key event reaches the callback: `if not self._running: return`
HkEvent(down) ==
  /\ hk_thread = "listening"
  /\ hk_inflight = "none"
  /\ hk_inflight' = IF hk_running THEN (IF down THEN "down" ELSE "up") ELSE "none"
  /\ UNCHANGED <<hk_running, hk_pressed, hk_thread, hk_calls>>
  /\ UNCHANGED <<qvars, rvars, wvars, pvars, hvars, svars, avars, lvars>>

\* A faulty callback, to test the latch against: every event invokes its callback.
HkAct_NoLatch ==
  /\ hk_inflight # "none"
  /\ Len(hk_calls) < MaxKeyCallbacks
  /\ hk_inflight' = "none"
  /\ hk_pressed' = (hk_inflight = "down")
  /\ hk_calls' = Append(hk_calls, IF hk_inflight = "down" THEN "press" ELSE "release")
  /\ dictation_active' = (hk_inflight = "down")
  /\ is_paused' = (hk_inflight = "down")
  /\ UNCHANGED <<hk_running, hk_thread>>
  /\ UNCHANGED <<qvars, rvars, wvars, hvars, last_chime_time, chimes, avars, lvars>>
  /\ UNCHANGED <<ppc, is_playing, current_project, complete, stream, aq, dev>>

\* the rest of the callback: an edge of the latch invokes on_press (the service
\* pauses the engine) or on_release (it resumes); a repeat does nothing
HkAct ==
  /\ hk_inflight # "none"
  /\ Len(hk_calls) < MaxKeyCallbacks
  /\ hk_inflight' = "none"
  /\ IF hk_inflight = "down" /\ ~hk_pressed
     THEN /\ hk_pressed' = TRUE
          /\ hk_calls' = Append(hk_calls, "press")
          /\ dictation_active' = TRUE
          /\ is_paused' = TRUE
     ELSE IF hk_inflight = "up" /\ hk_pressed
     THEN /\ hk_pressed' = FALSE
          /\ hk_calls' = Append(hk_calls, "release")
          /\ dictation_active' = FALSE
          /\ is_paused' = FALSE
     ELSE UNCHANGED <<hk_pressed, hk_calls, dictation_active, is_paused>>
  /\ UNCHANGED <<hk_running, hk_thread>>
  /\ UNCHANGED <<qvars, rvars, wvars, hvars, last_chime_time, chimes, avars, lvars>>
  /\ UNCHANGED <<ppc, is_playing, current_project, complete, stream, aq, dev>>

\* ---------------------------------------------------------- specifications
\* The three threads and the locks alone.
LockNext ==
  \/ \E t \in Threads : \E op \in OpsOf(t) : LockBegin(t, op)
  \/ \E t \in Threads : LockStep(t)

LockSpec == Init /\ [][LockNext]_vars

\* The POST handlers that take a body, in front of the queue and the worker;
\* the priority of an item plays no part in the handling of a body.
HttpNext ==
  \/ Tick
  \/ \E json \in BOOLEAN, proj \in Projects : HttpReserve(json, proj, NORMAL)
  \/ \E json \in BOOLEAN, i \in Readings, a \in {0, MaxChunks} : HttpFill(json, i, a)
  \/ \E json \in BOOLEAN, proj \in Projects \cup {NoProject} : HttpClear(json, proj)
  \/ WorkerLoop
  \/ WorkerSignal
  \/ Play

HttpSpec == Init /\ [][HttpNext]_vars

\* Items that come by reserve and fill (project "A") next to items that come
\* by queue_audio (project "B"), the worker and the waits on them.
EnqueueNext ==
  \/ Tick
  \/ \E p \in {HIGH, NORMAL} : Reserve("A", p)
  \/ \E p \in {HIGH, NORMAL} : QueueAudio("B", p, MaxChunks)
  \/ \E i \in Readings : Fill(i, MaxChunks)
  \/ WorkerLoop
  \/ WorkerSignal
  \/ Play
  \/ \E i \in Readings : WaitCall(i)
  \/ \E w \in waiters : WaitDone(w)
  \/ \E w \in waiters : WaitTimeout(w)

EnqueueSpec == Init /\ [][EnqueueNext]_vars

\* The hotkey monitor: key events, start and stop calls of its owner, and the
\* pause and resume requests of the API, which set the same flag.
HotkeyNext ==
  \/ HkStart
  \/ HkStop
  \/ HkExit
  \/ \E down \in BOOLEAN : HkEvent(down)
  \/ HkAct
  \/ Pause
  \/ Resume

HotkeySpec == Init /\ [][HotkeyNext]_vars

\* The chime rate limit: calls of POST /chime-allowed as time passes.
ChimeNext ==
  \/ Tick
  \/ CheckChime

ChimeSpec == Init /\ [][ChimeNext]_vars

\* The engine: the worker hands items to play, requests act on the engine.
Next ==
  \/ Tick
  \/ \E proj \in Projects, a \in 1..MaxChunks : QueueAudio(proj, NORMAL, a)
  \/ \E proj \in Projects, p \in Priorities : Reserve(proj, p)
  \/ WorkerLoop
  \/ WorkerSignal
  \/ PlayStart
  \/ PlayOpen
  \/ PlayFail
  \/ CallbackSilence
  \/ CallbackChunk
  \/ CallbackEnd
  \/ PlayDrain
  \/ PlayEnd
  \/ Pause
  \/ Resume
  \/ Stop

Spec == Init /\ [][Next]_vars

\* The queue and the worker of the service; a play call is one step.
QueueNext ==
  \/ Tick
  \/ \E proj \in Projects, p \in Priorities : Reserve(proj, p)
  \/ \E proj \in Projects, p \in Priorities : QueueAudio(proj, p, MaxChunks)
  \/ \E i \in Readings, a \in 1..MaxChunks : Fill(i, a)
  \/ ClearAll
  \/ \E proj \in Projects : ClearProject(proj)
  \/ WorkerLoop
  \/ WorkerSignal
  \/ Play

QueueSpec == Init /\ [][QueueNext]_vars

\* The queue, the worker and the completion registry with its waiters; the
\* priority of an item plays no part in the registry.
WaitNext ==
  \/ Tick
  \/ \E proj \in Projects : Reserve(proj, NORMAL)
  \/ \E proj \in Projects : QueueAudio(proj, NORMAL, MaxChunks)
  \/ \E i \in Readings : Fill(i, MaxChunks)
  \/ ClearAll
  \/ \E proj \in Projects : ClearProject(proj)
  \/ WorkerLoop
  \/ WorkerSignal
  \/ Play
  \/ \E i \in Readings : Cleanup(i)
  \/ \E i \in Readings : WaitCall(i)
  \/ \E w \in waiters : WaitDone(w)
  \/ \E w \in waiters : WaitTimeout(w)

WaitSpec == Init /\ [][WaitNext]_vars

\* AudioQueue called by concurrent threads, one of them the consumer.
ThreadNext ==
  \/ Tick
  \/ \E proj \in Projects, p \in Priorities : TReserve(proj, p)
  \/ \E proj \in Projects, p \in Priorities : TEnqueue(proj, p, MaxChunks)
  \/ \E k \in 1..MaxItems : TAppend(k)
  \/ \E i \in Readings : TFill(i, MaxChunks)
  \/ TClearAll
  \/ \E proj \in Projects : TClearProject(proj)
  \/ DequeueCall
  \/ DequeueWake

ThreadSpec == Init /\ [][ThreadNext]_vars

\* The worker keeps running: the event loop schedules the playback task after
\* each sleep and after each play call, a play call returns (every pause is
\* followed by a resume), and time passes.
WorkerFairness ==
  /\ WF_vars(Tick)
  /\ WF_vars(WorkerLoop)
  /\ WF_vars(WorkerSignal)
  /\ WF_vars(Play)

\* The queue and the worker under that fairness. Which project an item belongs
\* to matters to clear(project) alone, so one project and clear(None) are kept.
LiveQueueNext ==
  \/ Tick
  \/ Reserve("A", NORMAL)
  \/ \E p \in {NORMAL, LOW} : QueueAudio("A", p, MaxChunks)
  \/ \E i \in Readings : Fill(i, MaxChunks)
  \/ ClearAll
  \/ WorkerLoop
  \/ WorkerSignal
  \/ Play

FairQueueSpec == Init /\ [][LiveQueueNext]_vars /\ WorkerFairness

\* The same with the registry and its waiters; the timeout of a wait is long
\* enough never to fire, and a wait whose event is set returns.
LiveWaitNext ==
  \/ Tick
  \/ Reserve("A", NORMAL)
  \/ QueueAudio("A", NORMAL, MaxChunks)
  \/ \E i \in Readings : Fill(i, MaxChunks)
  \/ ClearAll
  \/ WorkerLoop
  \/ WorkerSignal
  \/ Play
  \/ \E i \in Readings : Cleanup(i)
  \/ \E i \in Readings : WaitCall(i)
  \/ \E w \in waiters : WaitDone(w)

FairWaitSpec ==
  /\ Init /\ [][LiveWaitNext]_vars
  /\ WorkerFairness
  /\ WF_vars(\E w \in waiters : WaitDone(w))

\* The same, where also every cleanup task that was created ends its sleep.
FairCleanupSpec ==
  /\ Init /\ [][LiveWaitNext]_vars
  /\ WorkerFairness
  /\ WF_vars(\E w \in waiters : WaitDone(w))
  /\ WF_vars(\E i \in Readings : Cleanup(i))

\* The engine runs: the executor thread goes through its play call, and the
\* output device keeps calling the callback of an active stream.
EngineFairness ==
  /\ WF_vars(Tick)
  /\ WF_vars(WorkerLoop)
  /\ WF_vars(WorkerSignal)
  /\ WF_vars(PlayStart)
  /\ WF_vars(PlayOpen \/ PlayFail)
  /\ WF_vars(CallbackChunk)
  /\ WF_vars(CallbackEnd)
  /\ WF_vars(PlayDrain)
  /\ WF_vars(PlayEnd)

\* The worker and the engine under that fairness, with stop requests; no pause
\* is requested, and the items come with their audio.
LivePlayNext ==
  \/ Tick
  \/ \E a \in 1..MaxChunks : QueueAudio("A", NORMAL, a)
  \/ WorkerLoop
  \/ WorkerSignal
  \/ PlayStart
  \/ PlayOpen
  \/ PlayFail
  \/ CallbackChunk
  \/ CallbackEnd
  \/ PlayDrain
  \/ PlayEnd
  \/ Stop

FairPlaySpec ==
  /\ Init /\ [][LivePlayNext]_vars
  /\ EngineFairness

\* ------------------------------------------------------------- properties
InItems(o) == \E k \in 1..Len(items) : items[k] = o
WasPlayed(o) == \E k \in 1..Len(played) : played[k] = o
Age(o) == now - objs[o].reservation_time
Last(s) == s[Len(s)]

FreshPendingBefore(x) ==
  \E k \in 1..Len(items) :
    /\ ~is_ready(items[k])
    /\ ItemLess(items[k], x)
    /\ Age(items[k]) <= RESERVATION_TIMEOUT

C3_HighNeverWaits ==
  [][ (played' # played /\ objs[Last(played')].priority # HIGH)
      => ~\E k \in 1..Len(items) :
            is_ready(items[k]) /\ objs[items[k]].priority = HIGH ]_vars

\* C4: at most one item is being played. The worker awaits the executor exactly
\* while a play call runs, every item handed to play but the last has had its
\* play call return, and the output stream is active only inside a play call.
C4_AtMostOnePlaying ==
  /\ (wpc = "play") <=> (ppc # "idle")
  /\ Len(played) <= Cardinality(returned) + (IF wpc = "play" THEN 1 ELSE 0)
  /\ stream = "active" => (ppc = "wait" /\ cur = Last(played))
  /\ is_playing => ppc \in {"open", "wait", "end"}

\* a second item is being played, after the play call of the first returned
C4_Witness ==
  /\ Len(played) = 2
  /\ played[1] # played[2]
  /\ stream = "active"
  /\ is_playing
  /\ played[1] \in returned

\* C6: a reservation that dequeue removes as timed out has its completion
\* event signaled, so that a wait on its item_id returns completed=true.
C6_ExpirySignals == dq.expired # 0 => dq.expired \in evSet

\* C8: wait_for_item does not return completed=true for an item_id while an
\* item with that id is still queued or being played.
C8_NoEarlyCompletion ==
  [][ (lastWait' # lastWait /\ lastWait'.completed)
      => ~\E o \in 1..Len(objs) :
            /\ objs[o].item_id = lastWait'.id
            /\ InItems(o) \/ (wpc = "play" /\ cur = o) ]_vars

\* C9: a wait_for_item call for an item_id that has no entry in the registry
\* returns completed=true in that very step, and no waiter is left blocked.
C9_UnknownIdCompletes ==
  [][ \A i \in Readings :
        (events[i] = 0 /\ WaitCall(i))
        => /\ lastWait' = [known |-> FALSE, completed |-> TRUE, id |-> i]
           /\ waiters' = waiters ]_vars

\* a wait returned at once for the id of an item that was played and cleaned up
C9_Witness ==
  /\ ~lastWait.known
  /\ lastWait.completed
  /\ events[lastWait.id] = 0
  /\ \E o \in 1..Len(objs) : objs[o].item_id = lastWait.id /\ o \in returned

\* C10: a wait_for_item call that times out returns completed=false and leaves
\* the queue, the items, the registry, the worker and the engine as they were.
C10_TimeoutChangesNothing ==
  [][ \A w \in waiters :
        (w.ev \notin evSet /\ waiters' = waiters \ {w})
        => /\ lastWait' = [known |-> TRUE, completed |-> FALSE, id |-> w.id]
           /\ UNCHANGED <<qvars, events, evSet, cleanups, wvars, pvars>> ]_vars

\* a wait on a pending item timed out; the item was then filled, played and
\* signaled under the event that stayed registered
C10_Witness ==
  /\ lastWait.known
  /\ ~lastWait.completed
  /\ events[lastWait.id] \in evSet
  /\ \E o \in 1..Len(objs) :
       /\ objs[o].item_id = lastWait.id
       /\ o \in returned
       /\ events[lastWait.id] = o

\* a ready item that left the queue without being returned by dequeue: removed
\* by clear, or by a dequeue call that then raised
Gone(o) == o <= Len(objs) /\ ~InItems(o) /\ ~WasPlayed(o)

\* a wait_for_item call is blocked on the event created for item o, which is
\* queued with its audio
C5_Blocked(o) ==
  /\ o <= Len(objs)
  /\ is_ready(o)
  /\ InItems(o)
  /\ [id |-> objs[o].item_id, ev |-> o] \in waiters

\* C5: a wait on an item that has its audio and is not removed by clear comes
\* to return completed=true (the event it waits on is set), while the worker
\* keeps running.
C5_FilledItemsComplete ==
  \A o \in Oids : C5_Blocked(o) ~> (o \in evSet \/ Gone(o) \/ wpc = "dead")

\* item o is queued with its audio behind a pending item
C7_Behind(o) ==
  /\ o <= Len(objs)
  /\ is_ready(o)
  /\ \E k, m \in 1..Len(items) :
       /\ items[m] = o
       /\ ~is_ready(items[k])
       /\ ItemLess(items[k], o) \/ (ItemEq(items[k], o) /\ k < m)

\* a reservation of the queue whose age exceeds RESERVATION_TIMEOUT leaves the
\* queue (or gets its audio after all)
C7_TimedOutLeaves ==
  \A o \in Oids :
    (o <= Len(objs) /\ InItems(o) /\ ~is_ready(o) /\ Age(o) > RESERVATION_TIMEOUT)
    ~> (~InItems(o) \/ is_ready(o) \/ wpc = "dead")

\* C7 as stated: a timed-out reservation is removed, and every ready item that
\* was ordered behind a reservation is returned by dequeue in the end, while
\* the worker keeps calling dequeue.
C7_NoPermanentStall ==
  /\ C7_TimedOutLeaves
  /\ \A o \in Oids : C7_Behind(o) ~> (WasPlayed(o) \/ wpc = "dead")

\* C7, amended: ... every ready item that was ordered behind a reservation and
\* is not removed from the queue by clear is returned by dequeue in the end.
C7_NoPermanentStallUnlessCleared ==
  /\ C7_TimedOutLeaves
  /\ \A o \in Oids : C7_Behind(o) ~> (WasPlayed(o) \/ Gone(o) \/ wpc = "dead")

\* a dequeue call removed a timed-out reservation and returned the ready item
\* that was queued behind it
C7_Witness ==
  /\ dq.case = "expired_ready"
  /\ dq.expired # 0
  /\ ~InItems(dq.expired)
  /\ ~is_ready(dq.expired)
  /\ played # <<>>
  /\ ItemLess(dq.expired, Last(played))

\* C11: while the paused flag is true a callback writes silence and takes no
\* chunk from the queue; and whatever pause and resume calls come in between,
\* the chunks written to the device are the chunks of the item, in order, each
\* once: a prefix of them at any moment, all of them when the callback has
\* ended the stream.
C11_PauseKeepsChunks ==
  /\ [](\A k \in 1..Len(dev) : dev[k] = k)
  /\ [](stream = "stopped" => dev = ChunkNos(objs[cur].audio))
  /\ [][ (is_paused /\ stream = "active" /\ stream' # "none")
         => (aq' = aq /\ dev' = dev /\ stream' = "active") ]_vars

\* paused in the middle of an item: one chunk written, the others still queued
C11_Witness ==
  /\ is_paused
  /\ stream = "active"
  /\ objs[cur].audio = 2
  /\ dev = <<1>>
  /\ Len(aq) = 2

\* C12: of two check_chime_allowed calls less than the cooldown apart, at most
\* one returns allowed=true.
C12_ChimeRateLimit ==
  \A i, j \in 1..Len(chimes) :
    (i < j /\ chimes[i].allowed /\ chimes[j].allowed)
    => chimes[j].t - chimes[i].t >= CHIME_COOLDOWN

\* a chime was allowed, one within the cooldown was refused, and the next one
\* was allowed a cooldown after the first
C12_Witness ==
  /\ Len(chimes) = 3
  /\ chimes[1].allowed
  /\ ~chimes[2].allowed
  /\ chimes[2].t > chimes[1].t
  /\ chimes[3].allowed
  /\ chimes[3].t - chimes[1].t = CHIME_COOLDOWN

\* the ids of the items created so far are pairwise different
DistinctIds == \A a, b \in 1..Len(objs) : a # b => objs[a].item_id # objs[b].item_id

\* C13: clear(project=X) removes exactly the queued items of project X, returns
\* their number and leaves the other items in their order, also when items
\* share priority and reservation_time.
C13_ClearProjectExact ==
  [][ \A proj \in Projects :
        ClearProject(proj)
        => /\ items' = SelectSeq(items, LAMBDA o : objs[o].project # proj)
           /\ ClearCount(items, proj) = Len(items) - Len(items') ]_vars

\* the same with pairwise different item ids (not a claim: the part C21 plays)
C13_ClearProjectExact_DistinctIds ==
  [][ \A proj \in Projects :
        (DistinctIds /\ ClearProject(proj))
        => items' = SelectSeq(items, LAMBDA o : objs[o].project # proj) ]_vars

\* the same for items that differ in priority or reservation_time
C13_ClearProjectExact_Unequal ==
  [][ \A proj \in Projects :
        ((\A a, b \in 1..Len(items) : a # b => ~ItemEq(items[a], items[b])) /\ ClearProject(proj))
        => /\ items' = SelectSeq(items, LAMBDA o : objs[o].project # proj)
           /\ ClearCount(items, proj) = Len(items) - Len(items') ]_vars

\* C14: when clear removes an item from the queue, the completion event
\* registered under its item_id is set, so that a wait_for_item call blocked on
\* it returns without running into its timeout.
C14_ClearSignals ==
  [][ \A o \in Oids :
        ( /\ ClearAll \/ \E proj \in Projects : ClearProject(proj)
          /\ o <= Len(objs)
          /\ InItems(o)
          /\ ~InItems(o)'
          /\ [id |-> objs[o].item_id, ev |-> o] \in waiters )
        => o \in evSet' ]_vars

\* C15: a fill for an item_id whose item already has its audio returns
\* filled=false and leaves the audio of the first fill unchanged.
C15_SecondFillRejected ==
  [][ \A i \in Readings, a \in 1..MaxChunks :
        (Fill(i, a) /\ byId[i] # 0 /\ is_ready(byId[i]))
        => (~FillResult(byId, i) /\ objs' = objs) ]_vars

\* C16: dequeue returns an item with a given item_id at most once.
C16_NoDoublePlay ==
  \A i, j \in 1..Len(played) :
    i # j => objs[played[i]].item_id # objs[played[j]].item_id

\* no item object is returned by dequeue twice (the part of C16 that does not
\* depend on the ids being unique)
C16_NoObjectTwice ==
  \A i, j \in 1..Len(played) : i # j => played[i] # played[j]

\* C17: a fill on an item_id that is no key, or on a reservation older than
\* RESERVATION_TIMEOUT, returns filled=false and changes no queue state.
C17_FillUnknownOrExpired ==
  [][ \A i \in Readings, a \in 1..MaxChunks :
        ( /\ Fill(i, a)
          /\ \/ byId[i] = 0
             \/ ~is_ready(byId[i]) /\ Age(byId[i]) > RESERVATION_TIMEOUT )
        => (~FillResult(byId, i) /\ UNCHANGED qvars) ]_vars

\* the part of C17 about an id that is no key
C17_FillUnknown ==
  [][ \A i \in Readings, a \in 1..MaxChunks :
        (Fill(i, a) /\ byId[i] = 0) => (~FillResult(byId, i) /\ UNCHANGED qvars) ]_vars

\* C18: two items of the same priority are returned by dequeue in the order
\* in which their reserve/enqueue calls acquired the lock (the order of objs),
\* also when the calls run on different threads.
C18_LockOrder ==
  \A i, j \in 1..Len(played) :
    (objs[played[i]].priority = objs[played[j]].priority /\ played[i] < played[j])
    => i < j

\* the 1-indexed rank of the item appended last in the scheduling order: one
\* plus the number of queued items that sorted(self._items) puts before it
RankOfLast ==
  Cardinality({k \in 1..Len(items) : ~ItemLess(Last(items), items[k])})

\* C19: the position that reserve or enqueue returns is the rank of the new
\* item in the scheduling order.
C19_PositionIsRank ==
  [][ (\E proj \in Projects, p \in Priorities :
         Reserve(proj, p) \/ \E a \in 1..MaxChunks : QueueAudio(proj, p, a))
      => (Position(items) = RankOfLast)' ]_vars

\* the same for a queue of one priority, where the new item is the last
C19_PositionIsRank_OnePriority ==
  [][ ( /\ \E proj \in Projects, p \in Priorities :
             Reserve(proj, p) \/ \E a \in 1..MaxChunks : QueueAudio(proj, p, a)
        /\ (\A k \in 1..Len(items) : objs[items[k]].priority = objs[Last(items)].priority)' )
      => (Position(items) = RankOfLast)' ]_vars

\* an item of another project than that of item n is being played (dequeued by
\* the worker, its play call not yet returned) or is scheduled ahead of n
AnnounceDue(n) ==
  \/ wpc = "play" /\ objs[cur].project # objs[n].project
  \/ \E k \in 1..Len(items) :
       /\ items[k] # n
       /\ objs[items[k]].project # objs[n].project
       /\ ~ItemLess(n, items[k])

\* C20: reserve_slot returns should_announce=true if and only if an item of
\* another project is being played or is scheduled ahead of the new slot.
C20_AnnounceIffAhead ==
  [][ (\E proj \in Projects, p \in Priorities : Reserve(proj, p))
      => (ShouldAnnounce(Last(items)) <=> AnnounceDue(Last(items)))' ]_vars

\* the same when no queued item is scheduled behind the new slot, the engine
\* names its project while the worker awaits a play call, and the ids are
\* pairwise different
C20_AnnounceIffAhead_Plain ==
  [][ ( /\ \E proj \in Projects, p \in Priorities : Reserve(proj, p)
        /\ wpc = "play" <=> current_project # NoProject
        /\ (DistinctIds /\ \A k \in 1..Len(items) : ~ItemLess(Last(items), items[k]))' )
      => (ShouldAnnounce(Last(items)) <=> AnnounceDue(Last(items)))' ]_vars

\* C21: item_id is unique: no two reserve/enqueue calls produce items with the
\* same item_id, also when they happen at the same clock reading.
C21_UniqueItemIds ==
  \A a, b \in 1..Len(objs) : a # b => objs[a].item_id # objs[b].item_id

\* C22: dequeue never raises; it returns an item or None.
C22_DequeueNeverRaises == dq.case \notin {"KeyError", "ValueError"}

\* the same while the item ids are pairwise different
C22_DequeueNeverRaises_DistinctIds == DistinctIds => C22_DequeueNeverRaises

\* the same while the item ids are pairwise different and no two items are
\* equal in (priority, reservation_time)
C22_DequeueNeverRaises_Unequal ==
  (DistinctIds /\ \A a, b \in 1..Len(objs) : a # b => ~ItemEq(a, b))
  => C22_DequeueNeverRaises

\* the play call of the worker's current item has returned False, and the
\* worker has not yet gone on
C23_Failed == wpc = "signal" /\ cur \in failed

\* C23: when play fails it returns False, the engine is idle with no stream,
\* the item's completion event is fired and the worker goes on to the next
\* iteration.
C23_PlayFailureHandled ==
  /\ [](C23_Failed => (ppc = "idle" /\ ~is_playing /\ stream = "none"))
  /\ [][ (C23_Failed /\ wpc' # "signal")
         => (cur \in evSet' /\ wpc' \in {"loop", "play"}) ]_vars

\* the same while the item ids are pairwise different
C23_PlayFailureHandled_DistinctIds ==
  /\ [](C23_Failed => (ppc = "idle" /\ ~is_playing /\ stream = "none"))
  /\ [][ (DistinctIds /\ C23_Failed /\ wpc' # "signal")
         => (cur \in evSet' /\ wpc' \in {"loop", "play"}) ]_vars

\* C24: the worker never dies: an exception raised inside an iteration of the
\* playback loop is caught and the loop continues.
C24_WorkerNeverDies == wpc # "dead"

\* C25: the paused flag changes only through pause() and resume() (called by a
\* request or by a hotkey edge); no other operation changes it.
C25_PausedOnlyByPauseResume ==
  [][ is_paused' # is_paused => (Pause \/ Resume) ]_vars

\* stop() was applied to the play call of the worker's current item, which has
\* not yet returned
C26_Stopped == wpc = "play" /\ ppc \in {"open", "wait", "end"} /\ ~is_playing

\* C26: stop() during playback leaves the engine idle and the queue unchanged,
\* the play call returns and the event of the stopped item fires, and the
\* items still queued are played; stop() with nothing playing changes nothing.
C26_StopAbortsCurrentOnly ==
  /\ [][ (is_playing /\ Stop)
         => ( /\ ~is_playing' /\ current_project' = NoProject /\ stream' = "none"
              /\ UNCHANGED <<qvars, rvars, wvars>> ) ]_vars
  /\ [][ (~is_playing /\ Stop) => UNCHANGED vars ]_vars
  /\ \A o \in Oids : (C26_Stopped /\ cur = o) ~> (o \in evSet)
  /\ \A o \in Oids : (C26_Stopped /\ InItems(o)) ~> WasPlayed(o)

\* the same while the item ids are pairwise different
C26_StopAbortsCurrentOnly_DistinctIds ==
  /\ [][ (is_playing /\ Stop)
         => ( /\ ~is_playing' /\ current_project' = NoProject /\ stream' = "none"
              /\ UNCHANGED <<qvars, rvars, wvars>> ) ]_vars
  /\ [][ (~is_playing /\ Stop) => UNCHANGED vars ]_vars
  /\ \A o \in Oids : (C26_Stopped /\ cur = o) ~> (o \in evSet \/ ~DistinctIds)
  /\ \A o \in Oids : (C26_Stopped /\ InItems(o)) ~> (WasPlayed(o) \/ ~DistinctIds)

\* C27: the callbacks fire in strict alternation on_press, on_release, ...
\* starting with on_press, and none fires after the monitor has been stopped
\* or when it failed to start.
C27_HotkeyOncePerEdge ==
  /\ [](\A k \in 1..Len(hk_calls) :
          hk_calls[k] = IF k % 2 = 1 THEN "press" ELSE "release")
  /\ [][ hk_calls' # hk_calls => (hk_running /\ hk_thread = "listening") ]_vars

\* the alternation alone
C27_Alternation ==
  \A k \in 1..Len(hk_calls) : hk_calls[k] = IF k % 2 = 1 THEN "press" ELSE "release"

\* no callback is invoked for a key event that arrives after stop(), or without
\* a listener
C27_NoEventTakenAfterStop ==
  [][ hk_inflight' \notin {"none", hk_inflight}
      => (hk_running /\ hk_thread = "listening") ]_vars

\* an item that is queued, being played, or played and not yet signaled
Live(o) == InItems(o) \/ (wpc \in {"play", "signal"} /\ cur = o)

\* C28: the completion event of an item is registered before its item_id is
\* returned and before the worker can complete the item: the call that creates
\* the item leaves its event registered, the id of a live item is never
\* unknown to the registry, and the worker's signal sets the item's own event.
C28_EventBeforeIdReturned ==
  /\ [][ Len(objs') > Len(objs)
         => events'[objs'[Len(objs')].item_id] = Len(objs') ]_vars
  /\ [](\A o \in 1..Len(objs) : Live(o) => events[objs[o].item_id] # 0)
  /\ [][ (wpc = "signal" /\ wpc' # "signal") => cur \in evSet' ]_vars

\* the same, for behaviours in which no two items share an item_id
C28_EventBeforeIdReturned_DistinctIds ==
  /\ [][ Len(objs') > Len(objs)
         => events'[objs'[Len(objs')].item_id] = Len(objs') ]_vars
  /\ [](DistinctIds => \A o \in 1..Len(objs) : Live(o) => events[objs[o].item_id] = o)
  /\ [][ (DistinctIds /\ wpc = "signal" /\ wpc' # "signal") => cur \in evSet' ]_vars

\* a request whose body is no JSON, at one of the three endpoints
MalformedReserve == \E proj \in Projects, p \in Priorities : HttpReserve(FALSE, proj, p)
MalformedFill == \E i \in Readings, a \in 0..MaxChunks : HttpFill(FALSE, i, a)
MalformedClear == \E proj \in Projects \cup {NoProject} : HttpClear(FALSE, proj)

C30_EnqueueIsReserveFill ==
  /\ [][ \A proj \in Projects, p \in Priorities :
           Reserve(proj, p)
           => LET it == NewItem(p, now, FALSE, 0, proj, now')
                  n == Len(objs) + 1
              IN /\ objs' = Append(objs, it)
                 /\ items' = Append(items, n)
                 /\ byId' = [byId EXCEPT ![it.item_id] = n]
                 /\ total_enqueued' = total_enqueued + 1
                 /\ events' = [events EXCEPT ![it.item_id] = n]
                 /\ UNCHANGED <<total_played, fills, evSet, cleanups, waiters, wvars, pvars>> ]_vars
  /\ [][ \A i \in Readings, a \in 1..MaxChunks :
           Fill(i, a)
           => /\ objs' = FillItem(objs, byId, i, a)
              /\ fills' = IF byId[i] # 0 /\ ~is_ready(byId[i])
                          THEN Append(fills, byId[i]) ELSE fills
              /\ UNCHANGED <<now, items, byId, total_enqueued, total_played, rvars, wvars, pvars>> ]_vars
  /\ [][ \A proj \in Projects, p \in Priorities, a \in 1..MaxChunks :
           QueueAudio(proj, p, a)
           => LET r == ReserveThenFill(proj, p, a, now')
              IN /\ objs' = r.objs
                 /\ items' = r.items
                 /\ byId' = r.byId
                 /\ total_enqueued' = r.total_enqueued
                 /\ events' = r.events
                 /\ fills' = r.fills
                 /\ UNCHANGED <<total_played, evSet, cleanups, waiters, wvars, pvars>> ]_vars

\* an item that came by queue_audio and one that came by reserve and fill, of
\* the same priority and audio, were both played and signaled to their waits
C30_Witness ==
  \E a, b \in 1..Len(objs) :
    /\ objs[a].project = "A" /\ objs[b].project = "B"
    /\ objs[a].priority = objs[b].priority
    /\ objs[a].audio = objs[b].audio
    /\ objs[a].filled /\ objs[b].filled
    /\ {a, b} \subseteq returned
    /\ {a, b} \subseteq evSet

\* what pause and resume leave alone
C31_Frame == <<qvars, rvars, wvars, ppc, is_playing, current_project, complete, stream, aq, dev>>

\* C31: pause and resume are idempotent and always succeed: whatever the state,
\* playing or not, pause leaves the flag set and resume leaves it clear and
\* neither changes anything else (so pause; pause; resume ends where pause;
\* resume ends); a pause is never without effect on a clear flag, nor a resume
\* on a set one; and the start of a play does not touch the flag, so an item
\* that starts later finds it set.
C31_PauseResumeIdempotent ==
  /\ [][ Pause => (is_paused' /\ UNCHANGED C31_Frame) ]_vars
  /\ [][ Resume => (~is_paused' /\ UNCHANGED C31_Frame) ]_vars
  /\ [](~is_paused => ENABLED <<Pause>>_vars)
  /\ [](is_paused => ENABLED <<Resume>>_vars)
  /\ [][ (PlayStart \/ PlayOpen) => is_paused' = is_paused ]_vars

\* an item has started under a set flag: its stream is open, all its chunks are
\* still queued and nothing was written to the device
C31_Witness ==
  /\ is_paused
  /\ ppc = "wait"
  /\ stream = "active"
  /\ dev = <<>>
  /\ Len(aq) = objs[cur].audio + 1

\* the time of the last allowed call in the history, NoChimeYet when there is none
LastAllowed(h) ==
  LET A == {k \in 1..Len(h) : h[k].allowed}
  IN IF A = {} THEN NoChimeYet
     ELSE h[CHOOSE k \in A : \A m \in A : m <= k].t

\* C32: check_chime_allowed answers allowed=true and records now exactly when
\* now minus the last allowed time is at least the cooldown; a denied call
\* leaves the last allowed time as it was, so the time recorded is always that
\* of the last allowed call.
C32_ChimeExact ==
  /\ [][ Len(chimes') > Len(chimes)
         => LET c == Last(chimes')
            IN /\ c.t = now
               /\ c.allowed <=> (now - last_chime_time >= CHIME_COOLDOWN)
               /\ last_chime_time' = IF c.allowed THEN now ELSE last_chime_time ]_vars
  /\ [](last_chime_time = LastAllowed(chimes))

\* two denied calls, the second later than the first, did not extend the
\* cooldown: the call one cooldown after the first allowed one was allowed
C32_Witness ==
  /\ Len(chimes) = 4
  /\ chimes[1].allowed
  /\ ~chimes[2].allowed /\ ~chimes[3].allowed
  /\ chimes[3].t > chimes[1].t
  /\ chimes[4].allowed
  /\ chimes[4].t = chimes[1].t + CHIME_COOLDOWN
  /\ last_chime_time = chimes[4].t

\* C33: filling a reservation with empty audio (a = 0) makes the item READY,
\* and the request is answered as a fill that took place; the item can then be
\* dequeued, played for no chunk and signaled.
C33_EmptyFillReady ==
  [][ \A i \in Readings :
        (byId[i] # 0 /\ ~is_ready(byId[i]) /\ HttpFill(TRUE, i, 0))
        => /\ objs'[byId[i]].filled
           /\ response' = Answer("fill", TRUE, 200, FALSE) ]_vars

\* C34: every item returned by dequeue has audio, when it is returned and ever
\* after: no pending item is handed on, and an item that has audio never
\* becomes pending again.
C34_DequeuedIsReady ==
  /\ [][ Len(played') > Len(played) => is_ready(Last(played')) ]_vars
  /\ [](\A k \in 1..Len(played) : is_ready(played[k]))
  /\ [][ \A o \in 1..Len(objs) : is_ready(o) => objs'[o].filled ]_vars

\* dequeue found its next item pending, waited, and returned it after a fill
\* that came during the wait
C34_Witness ==
  /\ dq.case = "waited_ready"
  /\ played # <<>>
  /\ Last(played) \in {fills[k] : k \in 1..Len(fills)}
  /\ is_ready(Last(played))

\* the Event created for item o is the one registered under o's id
EventOf(o) == o <= Len(objs) /\ events[objs[o].item_id] = o

\* item o has left the queue and is not with the worker
Left(o) == o <= Len(objs) /\ ~Live(o)

\* C35: every completion event is removed from the registry after its item has
\* left the queue, whether the item was played, expired or cleared.
C35_EventsRemoved ==
  \A o \in Oids : (EventOf(o) /\ Left(o)) ~> ~EventOf(o)

\* the same for the items that dequeue returned to the worker
C35_EventsRemoved_Played ==
  \A o \in Oids : (EventOf(o) /\ Left(o) /\ WasPlayed(o)) ~> ~EventOf(o)

\* an event in the registry whose item has left the queue always has a cleanup
\* task pending
C35_CleanupScheduled ==
  \A o \in Oids : (EventOf(o) /\ Left(o)) => cleanups[objs[o].item_id] > 0

\* the locks thread t holds
Held(t) == {l \in Locks : holder[l] = t}

\* C36: no lock is held by a thread while it is inside a call on the output
\* device, in play as well as in stop.
C36_NoLockAcrossDevice == \A t \in Threads : t \in driving => Held(t) = {}

\* the same for the executor thread, that is for play
C36_NoLockAcrossDevice_Play == "executor" \in driving => Held("executor") = {}

\* C40: no thread ever holds two of the three locks at the same time, and the
\* threads cannot block one another for ever: whenever an operation is under
\* way, some thread can take its next step.
C40_OneLockAtATime ==
  /\ \A t \in Threads : Cardinality(Held(t)) <= 1
  /\ (\E t \in Threads : at[t] # Idle) => \E t \in Threads : CanStep(t)

\* reserve_slot is about to take the queue lock for its scan, having released
\* the registry lock and the player lock, while the executor holds the player
\* lock at the end of play
C40_Witness ==
  /\ at["loop"] = [op |-> "reserve_slot", done |-> 6]
  /\ Held("loop") = {}
  /\ holder["player"] = "executor"
  /\ at["executor"] = [op |-> "play", done |-> 5]

\* C37: total_enqueued grows by one with every reserve or enqueue call,
\* total_played by one with every item dequeue returns, and neither changes
\* otherwise; hence total_played + queue length <= total_enqueued.
C37_CounterAccounting ==
  /\ [][ total_enqueued' = total_enqueued + Len(objs') - Len(objs) ]_vars
  /\ [][ Len(objs') - Len(objs) \in {0, 1} ]_vars
  /\ [][ total_played' = total_played + Len(played') - Len(played) ]_vars
  /\ [][ Len(played') - Len(played) \in {0, 1} ]_vars
  /\ [](total_played + Len(items) <= total_enqueued)

\* of two items one was removed as timed out and the other played: one counted
C37_Witness ==
  /\ dq.case = "expired_ready"
  /\ dq.expired # 0
  /\ total_enqueued = 2
  /\ total_played = 1
  /\ items = <<>>

\* C38: the list _items and the index _items_by_id describe the same items:
\* every queued item is found under its own item_id, and every entry of the
\* index refers to an item that is in the list.
C38_IndexMatchesList ==
  /\ \A k \in 1..Len(items) : byId[objs[items[k]].item_id] = items[k]
  /\ \A i \in Readings : byId[i] # 0 => InItems(byId[i])

\* the same, as long as no two items share an item_id
C38_IndexMatchesList_DistinctIds == DistinctIds => C38_IndexMatchesList

\* the same, as long as no two items share an item_id or are equal in priority
\* and reservation_time
C38_IndexMatchesList_Unequal ==
  (DistinctIds /\ \A a, b \in 1..Len(objs) : a # b => ~ItemEq(a, b))
  => C38_IndexMatchesList

\* C39: in every state in which dictation_active is true the engine's paused
\* flag is true, whatever pause, resume, stop or clear requests arrive between
\* the press and the release of the hotkey.
C39_SilentWhileDictating == dictation_active => is_paused

====
